---- MODULE Spec2Model ----
(***************************************************************************)
(* Sprite-sheet generator: the App component (form, generation request,    *)
(* play/pause and fps controls) and the SpritePlayer component (image load *)
(* effect, animation loop effect, render).                                 *)
(*                                                                         *)
(* The handler of a DOM event of the page (change, click, submit) is one    *)
(* atomic action that includes the React re-render it schedules and the    *)
(* effects (cleanup, then setup) of that render: React renders state set   *)
(* in such an event, and runs the effects, before the event returns.       *)
(* State set by img.onload, or by handleGenerate after its await, is       *)
(* rendered in a later task, and the effects of that render run in a task  *)
(* after it; timer callbacks and other events run between these tasks.     *)
(* JavaScript numbers are modelled as exact                                *)
(* rationals plus NaN, the two infinities and -0, a rational that is not a *)
(* binary fraction standing for the double nearest to it; +, * and the     *)
(* comparisons of the aspect-ratio selection round as IEEE 754 doubles do. *)
(***************************************************************************)
EXTENDS Integers, Sequences, FiniteSets, TLC

(***************************************************************************)
(* JavaScript numbers.  <<n, d>> with d > 0 (n/d in lowest terms) is the    *)
(* double nearest to n/d, which is n/d itself when d is a power of two;    *)
(* <<n, d, u>> with u # 0 is the double u units in the last place above    *)
(* it.  <<0,0>> is NaN, <<1,0>> is Infinity, <<-1,0>> is -Infinity and     *)
(* <<0,-1>> is -0.  Sums and products of numbers that are not binary       *)
(* fractions are rounded as IEEE 754 rounds them, on the 53-bit binary     *)
(* expansions.                                                             *)
(***************************************************************************)
NaN == <<0, 0>>

PosInf == <<1, 0>>

NegInf == <<-1, 0>>

NegZero == <<0, -1>>

\* the element of a one-element set: binds operands to their values, so that
\* they are evaluated once
The(S) == CHOOSE r \in S : TRUE

N(i) == <<i, 1>>

IsNaN(a) == a = NaN

IsFinite(a) == a[2] # 0

\* +0 or -0
IsZero(a) == a[1] = 0 /\ a[2] # 0

\* the sign bit of a number other than NaN
Negative(a) == a[1] < 0 \/ a = NegZero

\* the zero with the given sign bit
Zero(negative) == IF negative THEN NegZero ELSE <<0, 1>>

\* the infinity with the given sign bit
Infinite(negative) == IF negative THEN NegInf ELSE PosInf

\* a number with -0 replaced by +0: the two compare equal and print alike
Unsigned(a) == IF a = NegZero THEN <<0, 1>> ELSE a

IsInteger(a) == Len(a) = 2 /\ (a[2] = 1 \/ a = NegZero)

Sign(i) == IF i > 0 THEN 1 ELSE IF i < 0 THEN -1 ELSE 0

Abs(i) == IF i < 0 THEN -i ELSE i

RECURSIVE GCD(_, _)
GCD(a, b) == IF b = 0 THEN a ELSE GCD(b, a % b)

\* n/d for d # 0, in lowest terms with a positive denominator (g is bound
\* by a set so that it is evaluated once)
Norm(n, d) ==
    CHOOSE r \in {<<(Sign(d) * n) \div g, (Sign(d) * d) \div g>> :
                     g \in {GCD(Abs(n), Abs(d))}} : TRUE

\* the rational a number is the rounding of, and its distance from the
\* double nearest to that rational
Shadow(a) == <<a[1], a[2]>>

Ulps(a) == IF Len(a) = 3 THEN a[3] ELSE 0

RECURSIVE IsPowerOfTwo(_)
IsPowerOfTwo(d) == d = 1 \/ (d > 1 /\ d % 2 = 0 /\ IsPowerOfTwo(d \div 2))

\* the rational n/d is a double itself (for the magnitudes met here)
Representable(a0) ==
    The({(
        Len(a) = 2 /\ IsFinite(a) /\ IsPowerOfTwo(Abs(a[2]))
        ) : a \in {a0}})

JsNeg(a0) ==
    The({(
        IF IsZero(a) THEN Zero(~Negative(a))
        ELSE IF Len(a) = 3 THEN <<-a[1], a[2], -a[3]>> ELSE <<-a[1], a[2]>>
        ) : a \in {a0}})

(***************************************************************************)
(* Doubles in binary.  A natural number of any size is its sequence of     *)
(* digits in base Radix, least significant first and without leading zero  *)
(* digits; a finite non-zero double is a sign s and a magnitude m * 2^e    *)
(* with m a natural number of exactly Significand bits.  Zero has m = <<>>.*)
(* Arguments are bound to their values before they are passed on.          *)
(***************************************************************************)
\* bits of the significand of a double
Significand == 53

\* bits of a digit
RadixBits == 13

Radix == 2 ^ RadixBits

RECURSIVE BitLength(_)
\* the number of bits of a natural number
BitLength(n) == IF n = 0 THEN 0 ELSE 1 + BitLength(n \div 2)

RECURSIVE Zeros(_)
Zeros(k) == IF k <= 0 THEN <<>> ELSE <<0>> \o Zeros(k - 1)

RECURSIVE BigNat(_)
BigNat(n) == IF n = 0 THEN <<>> ELSE <<n % Radix>> \o BigNat(n \div Radix)

RECURSIVE BigTrim(_)
\* without leading zero digits
BigTrim(x) ==
    IF x # <<>> /\ x[Len(x)] = 0
    THEN The({BigTrim(t) : t \in {SubSeq(x, 1, Len(x) - 1)}})
    ELSE x

BigBits(x0) ==
    The({(
        IF x = <<>> THEN 0 ELSE (Len(x) - 1) * RadixBits + BitLength(x[Len(x)])
        ) : x \in {x0}})

RECURSIVE BigScaleDigits(_, _, _)
\* the digits of x * k + c, for k, c < Radix
BigScaleDigits(x, k, c) ==
    IF x = <<>> THEN BigNat(c)
    ELSE The({<<p % Radix>> \o BigScaleDigits(t, k, q) :
                 p \in {Head(x) * k + c}, t \in {Tail(x)},
                 q \in {(Head(x) * k + c) \div Radix}})

BigScale(x, k, c) == The({BigTrim(z) : z \in {BigScaleDigits(x, k, c)}})

RECURSIVE BigAddDigits(_, _, _)
BigAddDigits(x, y, c) ==
    IF x = <<>> /\ y = <<>> THEN BigNat(c)
    ELSE The({<<d % Radix>> \o BigAddDigits(t, u, d \div Radix) :
                 d \in {(IF x = <<>> THEN 0 ELSE Head(x))
                        + (IF y = <<>> THEN 0 ELSE Head(y)) + c},
                 t \in {IF x = <<>> THEN <<>> ELSE Tail(x)},
                 u \in {IF y = <<>> THEN <<>> ELSE Tail(y)}})

\* x + y
BigAdd(x, y) == The({BigTrim(z) : z \in {BigAddDigits(x, y, 0)}})

RECURSIVE BigSubDigits(_, _, _)
BigSubDigits(x, y, b) ==
    IF x = <<>> THEN <<>>
    ELSE The({<<d % Radix>> \o BigSubDigits(t, u, IF d < 0 THEN 1 ELSE 0) :
                 d \in {Head(x) - (IF y = <<>> THEN 0 ELSE Head(y)) - b},
                 t \in {Tail(x)},
                 u \in {IF y = <<>> THEN <<>> ELSE Tail(y)}})

\* x - y, for x >= y
BigSub(x, y) == The({BigTrim(z) : z \in {BigSubDigits(x, y, 0)}})

RECURSIVE BigMul(_, _)
\* x * y
BigMul(x, y) ==
    IF x = <<>> \/ y = <<>> THEN <<>>
    ELSE IF Head(y) = 0 THEN The({<<0>> \o r : r \in {The({BigMul(x, t) : t \in {Tail(y)}})}})
    ELSE The({BigAdd(a, b) :
                 a \in {BigScale(x, Head(y), 0)},
                 b \in {The({IF r = <<>> THEN <<>> ELSE <<0>> \o r :
                                r \in {The({BigMul(x, t) : t \in {Tail(y)}})}})}})

\* x < y
BigLess(x0, y0) ==
    The({(
        \/ Len(x) < Len(y)
        \/ /\ Len(x) = Len(y)
           /\ \E i \in 1..Len(x) :
                  /\ x[i] < y[i]
                  /\ \A j \in (i + 1)..Len(x) : x[j] = y[j]
        ) : x \in {x0}, y \in {y0}})

RECURSIVE BigDivideDigits(_, _)
\* <<digits of x \div d, x % d>>, for d < 2^18
BigDivideDigits(x, d) ==
    IF x = <<>> THEN <<<<>>, 0>>
    ELSE The({The({<<<<t \div d>> \o h[1], t % d>> : t \in {h[2] * Radix + Head(x)}}) :
                 h \in {The({BigDivideDigits(u, d) : u \in {Tail(x)}})}})

\* x * 2^k and x \div 2^k
BigShiftLeft(x0, k0) ==
    The({(
        IF x = <<>> THEN <<>>
        ELSE Zeros(k \div RadixBits) \o BigScale(x, 2 ^ (k % RadixBits), 0)
        ) : x \in {x0}, k \in {k0}})

BigShiftRight(x0, k0) ==
    The({(
        IF Len(x) <= k \div RadixBits THEN <<>>
        ELSE The({BigTrim(BigDivideDigits(t, 2 ^ (k % RadixBits))[1]) :
                     t \in {SubSeq(x, (k \div RadixBits) + 1, Len(x))}})
        ) : x \in {x0}, k \in {k0}})

\* z * 2^e rounded to a significand, to nearest and on a tie to even
RoundBig(z0, e0) ==
    The({(
        LET len  == BigBits(z)
            drop == len - Significand
        IN  IF len = 0 THEN [m |-> <<>>, e |-> 0]
            ELSE IF drop <= 0 THEN [m |-> BigShiftLeft(z, -drop), e |-> e + drop]
            ELSE The({The({
                     LET up == BigLess(half, rest) \/ (rest = half /\ kept[1] % 2 = 1)
                     IN  The({IF BigBits(k2) > Significand
                              THEN [m |-> BigShiftRight(k2, 1), e |-> e + drop + 1]
                              ELSE [m |-> k2, e |-> e + drop] :
                                 k2 \in {IF up THEN BigAdd(kept, <<1>>) ELSE kept}}) :
                     rest \in {The({BigSub(z, low) : low \in {BigShiftLeft(kept, drop)}})},
                     half \in {BigShiftLeft(<<1>>, drop - 1)}}) :
                     kept \in {BigShiftRight(z, drop)}})
        ) : z \in {z0}, e \in {e0}})

\* the magnitude of m * 2^e / d rounded, for a natural number m # <<>> and 0 < d < 2^18
RoundQuotient(m, e, d) ==
    The({The({
        The({RoundBig(z, e - k - 1) :
                z \in {BigScale(qr[1], 2, IF qr[2] = 0 THEN 0 ELSE 1)}}) :
        qr \in {The({BigDivideDigits(x, d) : x \in {BigShiftLeft(m, k)}})}}) :
        k \in {Significand + 2 + BitLength(d)}})

\* the magnitude of the double nearest to n/d, for 0 < n and 0 < d < 2^18
NearestMag(n, d) == The({RoundQuotient(m, 0, d) : m \in {BigNat(n)}})

\* the next double above and below a magnitude
SuccMag(b0) ==
    The({(
        The({RoundBig(z, b.e) : z \in {BigAdd(b.m, <<1>>)}})
        ) : b \in {b0}})

PredMag(b0) ==
    The({(
        IF b.m = BigShiftLeft(<<1>>, Significand - 1)
        THEN [m |-> BigSub(BigShiftLeft(<<1>>, Significand), <<1>>), e |-> b.e - 1]
        ELSE [m |-> BigSub(b.m, <<1>>), e |-> b.e]
        ) : b \in {b0}})

RECURSIVE StepMag(_, _)
\* the magnitude u doubles further from zero
StepMag(b, u) ==
    IF u = 0 THEN b
    ELSE IF u > 0 THEN The({StepMag(c, u - 1) : c \in {SuccMag(b)}})
    ELSE The({StepMag(c, u + 1) : c \in {PredMag(b)}})

\* the binary expansion of a finite non-zero number
ToBin(a0) ==
    The({(
        [s |-> Sign(a[1]),
         mag |-> IF Representable(a)
                 THEN The({RoundBig(m, 1 - BitLength(a[2])) : m \in {BigNat(Abs(a[1]))}})
                 ELSE The({StepMag(near, Sign(a[1]) * Ulps(a)) :
                              near \in {NearestMag(Abs(a[1]), a[2])}})]
        ) : a \in {a0}})

\* a natural number below Radix as an integer
BigInt(x) == IF x = <<>> THEN 0 ELSE The({x[1] : n \in {Len(x)} \cap {1}})

\* how many doubles the magnitude b lies above the magnitude a (a few at most)
MagSteps(a0, b0) ==
    The({(
        IF a.e = b.e
        THEN (IF BigLess(a.m, b.m) THEN BigInt(BigSub(b.m, a.m))
              ELSE -BigInt(BigSub(a.m, b.m)))
        ELSE The({The({IF b.e = a.e + 1
                       THEN BigInt(BigSub(top, a.m)) + BigInt(BigSub(b.m, low))
                       ELSE -(BigInt(BigSub(top, b.m)) + BigInt(BigSub(a.m, low))) :
                          top \in {BigShiftLeft(<<1>>, Significand)},
                          low \in {BigShiftLeft(<<1>>, Significand - 1)}}) :
                     d \in {b.e - a.e} \cap {-1, 1}})
        ) : a \in {a0}, b \in {b0}})

\* the number with the rational shadow and the binary expansion r
FromBin(shadow0, r0) ==
    The({(
        IF r.mag.m = <<>> THEN <<0, 1>>
        ELSE The({IF u = 0 THEN shadow ELSE <<shadow[1], shadow[2], u>> :
                     u \in {The({r.s * MagSteps(near, r.mag) :
                                    near \in {NearestMag(Abs(shadow[1]), shadow[2])},
                                    sg \in {r.s} \cap {Sign(shadow[1])}})}})
        ) : shadow \in {shadow0}, r \in {r0}})

\* the rounded product and sum of two binary expansions
BinMul(x0, y0) ==
    The({(
        [s |-> x.s * y.s,
         mag |-> The({RoundBig(z, x.mag.e + y.mag.e) : z \in {BigMul(x.mag.m, y.mag.m)}})]
        ) : x \in {x0}, y \in {y0}})

BinAdd(x0, y0) ==
    The({(
        The({The({
            IF x.s = y.s THEN [s |-> x.s, mag |-> The({RoundBig(z, e) : z \in {BigAdd(xm, ym)}})]
            ELSE IF BigLess(xm, ym)
                 THEN [s |-> y.s, mag |-> The({RoundBig(z, e) : z \in {BigSub(ym, xm)}})]
            ELSE [s |-> x.s, mag |-> The({RoundBig(z, e) : z \in {BigSub(xm, ym)}})] :
            xm \in {BigShiftLeft(x.mag.m, x.mag.e - e)},
            ym \in {BigShiftLeft(y.mag.m, y.mag.e - e)}}) :
            e \in {IF x.mag.e < y.mag.e THEN x.mag.e ELSE y.mag.e}})
        ) : x \in {x0}, y \in {y0}})

\* the rounded quotient of a binary expansion by the binary fraction b # 0
BinDivide(x0, b0) ==
    The({(
        [s |-> x.s * Sign(b[1]),
         mag |-> RoundQuotient(x.mag.m, x.mag.e + BitLength(b[2]) - 1, Abs(b[1]))]
        ) : x \in {x0}, b \in {b0}})

JsMul(a0, b0) ==
    The({(
        IF IsNaN(a) \/ IsNaN(b) THEN NaN
        ELSE IF ~IsFinite(a) \/ ~IsFinite(b)
             THEN (IF a[1] = 0 \/ b[1] = 0 THEN NaN
                   ELSE Infinite(Negative(a) # Negative(b)))
        ELSE IF IsZero(a) \/ IsZero(b) THEN Zero(Negative(a) # Negative(b))
        ELSE IF Representable(a) /\ Representable(b) THEN Norm(a[1] * b[1], a[2] * b[2])
        ELSE The({FromBin(Norm(x[1] * y[1], x[2] * y[2]), BinMul(ToBin(x), ToBin(y))) :
                     x \in {a}, y \in {b}})
        ) : a \in {a0}, b \in {b0}})

JsDiv(a0, b0) ==
    The({(
        IF IsNaN(a) \/ IsNaN(b) THEN NaN
        ELSE IF ~IsFinite(a)
             THEN (IF ~IsFinite(b) THEN NaN
                   ELSE Infinite(Negative(a) # Negative(b)))
        ELSE IF ~IsFinite(b) THEN Zero(Negative(a) # Negative(b))
        ELSE IF IsZero(b)
             THEN (IF IsZero(a) THEN NaN ELSE Infinite(Negative(a) # Negative(b)))
        ELSE IF IsZero(a) THEN Zero(Negative(a) # Negative(b))
        ELSE IF Representable(a) /\ Representable(b) THEN Norm(a[1] * b[2], a[2] * b[1])
        ELSE IF ~Representable(b) THEN The({})  \* no division by a rounded number occurs
        ELSE The({FromBin(Norm(x[1] * y[2], x[2] * y[1]), BinDivide(ToBin(x), y)) :
                     x \in {a}, y \in {b}})
        ) : a \in {a0}, b \in {b0}})

JsAdd(a0, b0) ==
    The({(
        IF IsNaN(a) \/ IsNaN(b) THEN NaN
        ELSE IF ~IsFinite(a)
             THEN (IF ~IsFinite(b) /\ a # b THEN NaN ELSE a)
        ELSE IF ~IsFinite(b) THEN b
        ELSE IF IsZero(a) /\ IsZero(b) THEN Zero(Negative(a) /\ Negative(b))
        ELSE IF IsZero(a) THEN b
        ELSE IF IsZero(b) THEN a
        ELSE IF Representable(a) /\ Representable(b)
             THEN Norm(a[1] * b[2] + b[1] * a[2], a[2] * b[2])
        ELSE The({FromBin(Norm(x[1] * y[2] + y[1] * x[2], x[2] * y[2]),
                          BinAdd(ToBin(x), ToBin(y))) :
                     x \in {a}, y \in {b}})
        ) : a \in {a0}, b \in {b0}})

JsSub(a, b) == JsAdd(a, JsNeg(b))

\* Math.floor
JsFloor(a0) ==
    The({(
        IF ~IsFinite(a) \/ IsZero(a) THEN a
        ELSE IF a[2] = 1 /\ Ulps(a) < 0 THEN N(a[1] - 1)
        ELSE N(a[1] \div a[2])
        ) : a \in {a0}})

\* Math.ceil: a number in (-1, 0) goes to -0
JsCeil(a0) ==
    The({(
        IF ~IsFinite(a) \/ IsZero(a) THEN a
        ELSE The({IF r = 0 /\ a[1] < 0 THEN NegZero ELSE N(r) :
                     r \in {IF a[2] = 1 /\ Ulps(a) > 0 THEN a[1] + 1
                            ELSE -((-a[1]) \div a[2])}})
        ) : a \in {a0}})

JsTrunc(a0) ==
    The({(
        IF a[1] >= 0 THEN JsFloor(a) ELSE JsCeil(a)
        ) : a \in {a0}})

\* the % operator: the result takes the sign of the dividend
JsMod(a0, b0) ==
    The({(
        IF IsNaN(a) \/ IsNaN(b) \/ ~IsFinite(a) THEN NaN
        ELSE IF ~IsFinite(b) THEN a
        ELSE IF IsZero(b) THEN NaN
        ELSE IF IsZero(a) THEN a
        ELSE The({IF IsZero(r) THEN Zero(Negative(a)) ELSE r :
                     r \in {The({JsSub(a, JsMul(b, q)) : q \in {JsTrunc(JsDiv(a, b))}})}})
        ) : a \in {a0}, b \in {b0}})

\* a < b; every comparison with NaN is false
JsLt(a0, b0) ==
    The({(
        IF IsNaN(a) \/ IsNaN(b) \/ a = b THEN FALSE
        ELSE IF a = NegInf \/ b = PosInf THEN TRUE
        ELSE IF a = PosInf \/ b = NegInf THEN FALSE
        ELSE IF Shadow(a) = Shadow(b) THEN Ulps(a) < Ulps(b)
        ELSE a[1] * b[2] < b[1] * a[2]
        ) : a \in {Unsigned(a0)}, b \in {Unsigned(b0)}})

\* a <= b
JsLe(a, b) == ~IsNaN(a) /\ ~IsNaN(b) /\ (Unsigned(a) = Unsigned(b) \/ JsLt(a, b))

\* Math.max(a, b): NaN if either argument is NaN, and +0 is above -0
JsMax(a0, b0) ==
    The({(
        IF IsNaN(a) \/ IsNaN(b) THEN NaN
        ELSE IF IsZero(a) /\ IsZero(b) THEN Zero(Negative(a) /\ Negative(b))
        ELSE IF JsLt(a, b) THEN b ELSE a
        ) : a \in {a0}, b \in {b0}})

\* ToBoolean of a number: 0, -0 and NaN are falsy
Truthy(a) == ~IsNaN(a) /\ ~IsZero(a)


(***************************************************************************)
(* Bounds and environment.                                                 *)
(***************************************************************************)
\* most image loads of the player outstanding at once: started, and not yet
\* finished or not yet rendered
MaxPending == 1

InitialColumns == 4

InitialRows == 4

InitialFps == 12

FpsSliderMax == 60

\* max="16" of the columns and rows fields
FieldMax == 16

\* largest factor by which a grid is rescaled
MaxScale == 3

\* largest columns and rows of the players left to loop
MaxLoopGrid == 4

\* most image loads of one player outstanding when its parent races them
MaxRace == 2

\* largest column count and frame count of the sheets cut on their own
MaxGeometryColumns == 7

MaxGeometryFrames == 14

\* slider positions tried
FpsSamples == {InitialFps, FpsSliderMax}

\* Data URLs the generation service can return.  Image 3 does not decode.
Images == {1, 2, 3}

Decodes(img) == img # 3

\* img.naturalWidth / img.naturalHeight of a decoded image
NaturalWidth(img) ==
    IF img = 1 THEN 8 ELSE IF img = 2 THEN 12
    ELSE IF img = 5 THEN 29 ELSE IF img = 6 THEN 896 ELSE 0

NaturalHeight(img) ==
    IF img = 1 THEN 8 ELSE IF img = 2 THEN 6
    ELSE IF img = 5 THEN 29 ELSE IF img = 6 THEN 1280 ELSE 0

\* contents of the prompt textarea tried
Prompts == {"", " knight "}

\* String.prototype.trim on the prompts above
Trim(s) == IF s = " knight " THEN "knight" ELSE s

(***************************************************************************)
(* The number fields: e.target.value is a sequence of characters.          *)
(***************************************************************************)
DigitChars == <<"0", "1", "2", "3", "4", "5", "6", "7", "8", "9">>

IsDigit(c) == \E i \in 1..10 : DigitChars[i] = c

DigitValue(c) == (CHOOSE i \in 1..10 : DigitChars[i] = c) - 1

RECURSIVE LeadingDigits(_)
\* the longest prefix of s made of digits
LeadingDigits(s) ==
    IF s = <<>> \/ ~IsDigit(Head(s)) THEN <<>>
    ELSE <<Head(s)>> \o LeadingDigits(Tail(s))

RECURSIVE DigitsValue(_, _)
DigitsValue(s, acc) ==
    IF s = <<>> THEN acc ELSE DigitsValue(Tail(s), 10 * acc + DigitValue(Head(s)))

\* parseInt(s, 10): optional sign, then digits up to the first other
\* character; NaN when there is no digit
ParseInt(s) ==
    LET signed == s # <<>> /\ Head(s) \in {"-", "+"}
        body   == IF signed THEN Tail(s) ELSE s
        digs   == LeadingDigits(body)
        v      == DigitsValue(digs, 0)
    IN  IF digs = <<>> THEN NaN
        ELSE IF signed /\ Head(s) = "-" THEN JsNeg(N(v)) ELSE N(v)

\* field contents tried: empty, a negative, a fraction, and the initial value
FieldTexts ==
    {<<>>, <<"-", "2">>, <<"1", ".", "5">>, <<DigitChars[InitialColumns + 1]>>}

(***************************************************************************)
(* State.                                                                  *)
(***************************************************************************)
VARIABLES
    \* App (useState)
    prompt, columns, rows, generatedImageUrl, isLoading, error, isPlaying, fps,
    aspectRatio,        \* config.aspectRatio of the request shown as loading ("none": none)
    outcome,            \* state set after the await that React has not rendered yet
    \* SpritePlayer instance
    mounted,            \* the App renders a SpritePlayer
    props,              \* props of its last render
    spriteDimensions, frameDimensions,
    geomFrom,           \* the load that set frameDimensions (NoLoad: none); history
    currentFrame,       \* currentFrame.current
    hasElement,         \* playerRef.current is the rendered div
    backgroundPosition, \* playerRef.current.style.backgroundPosition, in px
    queued,             \* state set by onload that React has not rendered yet
    effectsDue,         \* effects of the last render that have not run yet: "none",
                        \* "mount" (a first render: every effect) or "update" (the
                        \* render of a new frameDimensions: the animation effect)
    \* browser
    intervals,          \* active setInterval timers (their callback closures)
    cleanup,            \* timers the registered effect cleanup will clear
    pending,            \* Image objects whose load has not finished
    \* history
    last                \* the last event and what it did to the timer

appVars == <<prompt, columns, rows, generatedImageUrl, isLoading, error, isPlaying, fps,
             aspectRatio, outcome>>

playerVars == <<mounted, props, spriteDimensions, frameDimensions, geomFrom,
                currentFrame, hasElement, backgroundPosition, queued, effectsDue,
                intervals, cleanup, pending>>

vars == <<appVars, playerVars, last>>

ZeroDim == [width |-> N(0), height |-> N(0)]

Origin == <<N(0), N(0)>>

NoProps == [imageUrl |-> 0, columns |-> N(0), frames |-> N(0), fps |-> N(0),
            isPlaying |-> FALSE]

NoLoad == [img |-> 0, columns |-> N(0), frames |-> N(0)]

\* no outcome of a request waits for a render
NoOutcome == [set |-> FALSE, imageUrl |-> 0, error |-> "none"]

\* no state update waits for a render
NoUpdate == [set |-> FALSE, sprite |-> ZeroDim, frame |-> ZeroDim, from |-> NoLoad]

NoInterval == [frames |-> N(0), columns |-> N(0), width |-> N(0), height |-> N(0),
               delay |-> N(0), sheet |-> 0]

\* events the history tells apart; the others are recorded as "other"
Tracked == {"TimerTick", "ImageLoaded", "FpsChange", "CommitQueued", "PassiveEffects"}

\* events of a generation that replaces a player, up to the new player's ticks
Replacing == {"Submit", "GenerateSuccess", "CommitOutcome", "ImageLoaded",
              "CommitQueued", "PassiveEffects", "TimerTick"}

\* the history record of an event: what it was, what its commit did to the timer
\* (kept, cleared, started, restarted, idle), the timer that ticked, and the image
\* the torn-down player had resolved, remembered until the next other event
Event(op, anim, tick) ==
    [op |-> IF op \in Tracked THEN op ELSE "other", anim |-> anim, tick |-> tick,
     replaced |-> IF op \in Replacing THEN last.replaced ELSE 0]

\* const numberOfFrames = columns * rows, and the props of <SpritePlayer>
AppProps(url, c, r, f, playing) ==
    [imageUrl |-> url, columns |-> c, frames |-> JsMul(c, r), fps |-> f,
     isPlaying |-> playing]

(***************************************************************************)
(* SpritePlayer.                                                           *)
(***************************************************************************)
\* dependency array of the image load effect
LoadDeps(p) == <<p.imageUrl, p.columns, p.frames>>

\* mutant: fps left out of the dependency array
AnimDepsNoFps(p) == <<p.isPlaying, p.frames, p.columns>>

\* dependency array of the animation effect, frameDimensions aside
AnimDeps(p) == <<p.isPlaying, p.fps, p.frames, p.columns>>

\* the Image created by the load effect, with what its onload closes over
LoadClosure(p) ==
    [img |-> p.imageUrl, columns |-> p.columns, frames |-> p.frames, live |-> TRUE]

\* a load whose player has been unmounted: onload still runs, but the state
\* setters and the refs it closes over belong to the discarded instance
Orphan(c) == [img |-> c.img, columns |-> N(0), frames |-> N(0), live |-> FALSE]

\* mutant: the guard does not test the frame size
AnimationGuardNoSize(p, fd) ==
    /\ p.isPlaying
    /\ ~JsLe(p.fps, N(0))

\* the animation effect starts a timer unless
\* !isPlaying || !frameDimensions.width || !frameDimensions.height || fps <= 0
AnimationGuard(p, fd) ==
    /\ p.isPlaying
    /\ Truthy(fd.width)
    /\ Truthy(fd.height)
    /\ ~JsLe(p.fps, N(0))

\* the setInterval callback closes over frames, columns and frameDimensions
IntervalClosure(p, fd, sheet) ==
    [frames |-> p.frames, columns |-> p.columns, width |-> fd.width,
     height |-> fd.height, delay |-> JsDiv(N(1000), p.fps), sheet |-> sheet]

\* mutant: the effect returns no cleanup
AnimationCleanupLeak(ivs, cl) == ivs

\* return () => clearInterval(intervalId)
AnimationCleanup(ivs, cl) == ivs \ cl

\* onload: rows, setSpriteDimensions, setFrameDimensions
ResolveSprite(c) ==
    [width |-> N(NaturalWidth(c.img)), height |-> N(NaturalHeight(c.img))]

\* mutant: the row count rounded down
ResolveFrameFloored(c) ==
    LET effRows == JsFloor(JsDiv(c.frames, c.columns))
    IN  [width  |-> JsDiv(N(NaturalWidth(c.img)), c.columns),
         height |-> JsDiv(N(NaturalHeight(c.img)), effRows)]

ResolveFrame(c) ==
    LET effRows == JsCeil(JsDiv(c.frames, c.columns))
    IN  [width  |-> JsDiv(N(NaturalWidth(c.img)), c.columns),
         height |-> JsDiv(N(NaturalHeight(c.img)), effRows)]

\* mutant: the column is the frame index itself, not its remainder
FrameOffsetUnwrapped(i, t) ==
    LET frameX == i
        frameY == JsFloor(JsDiv(i, t.columns))
    IN  <<JsMul(JsNeg(frameX), t.width), JsMul(JsNeg(frameY), t.height)>>

\* the offset the interval callback computes for frame index i
FrameOffset(i, t) ==
    LET frameX == JsMod(i, t.columns)
        frameY == JsFloor(JsDiv(i, t.columns))
    IN  <<JsMul(JsNeg(frameX), t.width), JsMul(JsNeg(frameY), t.height)>>

\* `${x}px ${y}px` is a valid background-position only for finite x and y
\* (-0 is written "0"); an invalid value leaves the style as it was
ApplyPosition(old, pos) ==
    IF IsFinite(pos[1]) /\ IsFinite(pos[2])
    THEN <<Unsigned(pos[1]), Unsigned(pos[2])>> ELSE old

(***************************************************************************)
(* The effects of a render of the player with props p2 and frame size fd2, *)
(* the render before it having had props prev: the effects whose           *)
(* dependencies changed run (all of them after the first render), the      *)
(* cleanup of an effect before its setup.  fdNew says that frameDimensions *)
(* is a new object; sheet is the image fd2 was resolved from.              *)
(***************************************************************************)
RunEffects(fresh, prev, p2, fdNew, fd2, sheet, ivs, cl, pend) ==
    LET runLoad == fresh \/ LoadDeps(prev) # LoadDeps(p2)
        runAnim == fresh \/ fdNew \/ AnimDeps(prev) # AnimDeps(p2)
    IN  The({[intervals |-> IF runAnim THEN AnimationCleanup(ivs, cl) \cup started
                                      ELSE ivs,
              cleanup   |-> IF runAnim THEN started ELSE cl,
              pending   |-> IF runLoad /\ p2.imageUrl # 0
                            THEN Append(pend, LoadClosure(p2)) ELSE pend,
              ran       |-> runAnim] :
                started \in {IF runAnim /\ AnimationGuard(p2, fd2)
                             THEN {IntervalClosure(p2, fd2, sheet)} ELSE {}}})

\* the timers and loads once the effects still due have run: the render they
\* belong to was the first one, or it stored a new frameDimensions and left
\* the props as they were
Flushed ==
    IF effectsDue # "none"
    THEN RunEffects(effectsDue = "mount", props, props, TRUE, frameDimensions,
                    geomFrom.img, intervals, cleanup, pending)
    ELSE [intervals |-> intervals, cleanup |-> cleanup, pending |-> pending,
          ran |-> FALSE]

\* what a step did to the timer, from the timers registered before and after
TimerChange(ran, before, after) ==
    IF ~ran THEN "kept"
    ELSE IF before # {} /\ after # {} THEN "restarted"
    ELSE IF before # {} THEN "cleared"
    ELSE IF after # {} THEN "started"
    ELSE "idle"

(***************************************************************************)
(* One synchronous React commit of the player: the effects still due run,  *)
(* then the player is unmounted, or (re)rendered with props p2 and the     *)
(* effects of that render run.  State queued by onload is not part of this *)
(* render: it stays queued, and is dropped with the player on unmount.     *)
(***************************************************************************)
PlayerCommit(op, mounted2, p2) ==
    \E due \in {Flushed} :
        IF ~mounted2
        THEN /\ mounted' = FALSE
             /\ props' = NoProps
             /\ spriteDimensions' = ZeroDim
             /\ frameDimensions' = ZeroDim
             /\ geomFrom' = NoLoad
             /\ currentFrame' = N(0)
             /\ hasElement' = FALSE
             /\ backgroundPosition' = Origin
             /\ queued' = NoUpdate
             /\ effectsDue' = "none"
             /\ intervals' = AnimationCleanup(due.intervals, due.cleanup)
             /\ cleanup' = {}
             /\ pending' = [i \in DOMAIN due.pending |-> Orphan(due.pending[i])]
             /\ last' = [Event(op, IF cleanup # {} \/ due.cleanup # {}
                                   THEN "cleared" ELSE "idle", NoInterval)
                            EXCEPT !.replaced = IF mounted THEN geomFrom.img
                                                           ELSE last.replaced]
        ELSE \E run \in {RunEffects(~mounted, props, p2, FALSE, frameDimensions,
                                    geomFrom.img, due.intervals, due.cleanup,
                                    due.pending)},
                element \in {~IsZero(frameDimensions.width)} :
                 /\ mounted' = TRUE
                 /\ props' = p2
                 /\ hasElement' = element
                 /\ backgroundPosition' = IF element /\ hasElement
                                          THEN backgroundPosition ELSE Origin
                 /\ effectsDue' = "none"
                 /\ intervals' = run.intervals
                 /\ cleanup' = run.cleanup
                 /\ pending' = run.pending
                 /\ last' = Event(op, TimerChange(due.ran \/ run.ran, cleanup,
                                                  run.cleanup), NoInterval)
                 /\ UNCHANGED <<spriteDimensions, frameDimensions, geomFrom,
                                currentFrame, queued>>

\* the loads outstanding: the Images still loading and the one whose sizes
\* wait for a render
Outstanding(pend, update) == Len(pend) + (IF update.set THEN 1 ELSE 0)

\* the re-render of the App within a DOM event.  State set after the await of
\* handleGenerate is not part of this render: it stays queued.
AppCommit(op) ==
    PlayerCommit(op, generatedImageUrl' # 0,
                 AppProps(generatedImageUrl', columns', rows', fps', isPlaying'))
    /\ Outstanding(pending', queued') <= MaxPending

Remove(s, i) == [j \in 1..(Len(s) - 1) |-> IF j < i THEN s[j] ELSE s[j + 1]]

\* mutant: onload does not reset the frame
OnloadFrameKept == currentFrame

\* currentFrame.current = 0 in onload
OnloadFrame == N(0)

\* img.onload of the i-th outstanding load: the two state setters queue a
\* render, the refs are written at once
ImageLoaded(i) ==
    /\ i \in DOMAIN pending
    /\ Decodes(pending[i].img)
    /\ LET c == pending[i]
       IN  IF c.live
           THEN /\ queued' = [set |-> TRUE, sprite |-> ResolveSprite(c),
                              frame |-> ResolveFrame(c),
                              from |-> [img |-> c.img, columns |-> c.columns,
                                        frames |-> c.frames]]
                /\ currentFrame' = OnloadFrame
                /\ backgroundPosition' = IF hasElement THEN Origin
                                         ELSE backgroundPosition
                /\ pending' = Remove(pending, i)
                /\ last' = Event("ImageLoaded", "kept", NoInterval)
                /\ UNCHANGED <<mounted, props, spriteDimensions, frameDimensions,
                               geomFrom, hasElement, effectsDue, intervals, cleanup>>
           ELSE \* the player that started the load is gone: its setState calls
                \* and its ref no longer reach anything rendered
                /\ pending' = Remove(pending, i)
                /\ last' = Event("StaleImageLoaded", "kept", NoInterval)
                /\ UNCHANGED <<mounted, props, spriteDimensions, frameDimensions,
                               geomFrom, currentFrame, hasElement,
                               backgroundPosition, queued, effectsDue, intervals,
                               cleanup>>
    /\ UNCHANGED appVars

\* React renders the state onload queued (setSpriteDimensions and
\* setFrameDimensions of the last onload), after the effects still due; the
\* effects of this render are left for a later task
CommitQueued ==
    /\ queued.set
    /\ \E due \in {Flushed}, element \in {~IsZero(queued.frame.width)} :
           /\ spriteDimensions' = queued.sprite
           /\ frameDimensions' = queued.frame
           /\ geomFrom' = queued.from
           /\ hasElement' = element
           /\ backgroundPosition' = IF element /\ hasElement
                                    THEN backgroundPosition ELSE Origin
           /\ queued' = NoUpdate
           /\ effectsDue' = "update"
           /\ intervals' = due.intervals
           /\ cleanup' = due.cleanup
           /\ pending' = due.pending
           /\ last' = Event("CommitQueued", TimerChange(due.ran, cleanup, due.cleanup),
                            NoInterval)
    /\ UNCHANGED <<mounted, props, currentFrame>>
    /\ UNCHANGED appVars

\* React runs the effects of the last render: both effects after the first
\* render of the player (the load effect creates the Image), the animation
\* effect after the render of a new frameDimensions
PassiveEffects ==
    /\ effectsDue # "none"
    /\ effectsDue' = "none"
    /\ \E due \in {Flushed} :
           /\ intervals' = due.intervals
           /\ cleanup' = due.cleanup
           /\ pending' = due.pending
           /\ last' = Event("PassiveEffects", TimerChange(TRUE, cleanup, due.cleanup),
                            NoInterval)
    /\ UNCHANGED <<mounted, props, spriteDimensions, frameDimensions, geomFrom,
                   currentFrame, hasElement, backgroundPosition, queued>>
    /\ UNCHANGED appVars

\* a load that fails: no onerror handler is installed
ImageError(i) ==
    /\ i \in DOMAIN pending
    /\ ~Decodes(pending[i].img)
    /\ pending' = Remove(pending, i)
    /\ last' = Event("ImageError", "kept", NoInterval)
    /\ UNCHANGED <<mounted, props, spriteDimensions, frameDimensions, geomFrom,
                   currentFrame, hasElement, backgroundPosition, queued, effectsDue,
                   intervals, cleanup>>
    /\ UNCHANGED appVars

\* mutant: the index stops at the last frame instead of wrapping
NextFrameClamped(cur, t) ==
    IF JsLt(JsAdd(cur, N(1)), t.frames) THEN JsAdd(cur, N(1)) ELSE cur

\* the frame index the interval callback stores
NextFrame(cur, t) == JsMod(JsAdd(cur, N(1)), t.frames)

\* the setInterval callback of timer t
TimerTick(t) ==
    /\ t \in intervals
    /\ currentFrame' = NextFrame(currentFrame, t)
    /\ backgroundPosition' =
           IF hasElement
           THEN ApplyPosition(backgroundPosition, FrameOffset(currentFrame', t))
           ELSE backgroundPosition
    /\ last' = Event("TimerTick", "kept", t)
    /\ UNCHANGED <<mounted, props, spriteDimensions, frameDimensions, geomFrom,
                   hasElement, queued, effectsDue, intervals, cleanup, pending>>
    /\ UNCHANGED appVars

(***************************************************************************)
(* App.                                                                    *)
(***************************************************************************)
\* onChange of the textarea
SetPrompt(s) ==
    /\ s # prompt
    /\ prompt' = s
    /\ UNCHANGED <<columns, rows, generatedImageUrl, isLoading, error, isPlaying, fps,
                   aspectRatio, outcome>>
    /\ AppCommit("SetPrompt")

\* Math.max(1, parseInt(e.target.value, 10))
ClampField(text) == JsMax(N(1), ParseInt(text))

\* onChange of the columns field
ColumnsChange(text) ==
    /\ ClampField(text) # columns
    /\ columns' = ClampField(text)
    /\ UNCHANGED <<prompt, rows, generatedImageUrl, isLoading, error, isPlaying, fps,
                   aspectRatio, outcome>>
    /\ AppCommit("ColumnsChange")

\* onChange of the rows field
RowsChange(text) ==
    /\ ClampField(text) # rows
    /\ rows' = ClampField(text)
    /\ UNCHANGED <<prompt, columns, generatedImageUrl, isLoading, error, isPlaying, fps,
                   aspectRatio, outcome>>
    /\ AppCommit("RowsChange")

(***************************************************************************)
(* The aspect ratio of the request (handleGenerate).                       *)
(***************************************************************************)
\* type AspectRatio
AspectRatios == {"1:1", "3:4", "4:3", "9:16", "16:9"}

\* const calculatedRatio = columns / rows
CalculatedRatio(c, r) == JsDiv(c, r)

\* (a + b) / 2 for the literals a and b, in doubles
Midpoint(a, b) == JsDiv(JsAdd(a, b), N(2))

\* the four thresholds of the chain
Above4To3 == Midpoint(Norm(16, 9), Norm(4, 3))

Above1To1 == Midpoint(Norm(4, 3), Norm(1, 1))

Above3To4 == Midpoint(Norm(1, 1), Norm(3, 4))

Above9To16 == Midpoint(Norm(3, 4), Norm(9, 16))

\* mutant: the last branch tests the ratio as the others do
LowestRatioTested(ratio) == IF JsLt(Norm(9, 16), ratio) THEN "9:16" ELSE "none"

\* the final else branch
LowestRatio(ratio) == "9:16"

\* the if / else if chain
SelectRatio(ratio) ==
    IF JsLt(Above4To3, ratio) THEN "16:9"
    ELSE IF JsLt(Above1To1, ratio) THEN "4:3"
    ELSE IF JsLt(Above3To4, ratio) THEN "1:1"
    ELSE IF JsLt(Above9To16, ratio) THEN "3:4"
    ELSE LowestRatio(ratio)

Classify(c, r) == SelectRatio(CalculatedRatio(c, r))

\* mutant: the old image stays while the request runs
UrlKeptOnSubmit(url) == url

\* what handleGenerate stores before the request: setGeneratedImageUrl(null)
UrlOnSubmit(url) == 0

\* handleGenerate up to the await
Submit ==
    /\ Trim(prompt) # ""
    /\ ~isLoading
    /\ isLoading' = TRUE
    /\ error' = "none"
    /\ generatedImageUrl' = UrlOnSubmit(generatedImageUrl)
    /\ aspectRatio' = Classify(columns, rows)
    /\ UNCHANGED <<prompt, columns, rows, isPlaying, fps, outcome>>
    /\ AppCommit("Submit")

\* handleGenerate when the client constructor throws before the await
SubmitThrows ==
    /\ Trim(prompt) # ""
    /\ ~isLoading
    /\ isLoading' = FALSE
    /\ error' = "exception"
    /\ generatedImageUrl' = UrlOnSubmit(generatedImageUrl)
    /\ UNCHANGED <<prompt, columns, rows, isPlaying, fps, aspectRatio, outcome>>
    /\ AppCommit("SubmitThrows")

\* the continuation of handleGenerate after the await: its setState calls
\* queue a render of the App
Settle(op, url, message) ==
    /\ isLoading
    /\ ~outcome.set
    /\ outcome' = [set |-> TRUE, imageUrl |-> url, error |-> message]
    /\ last' = Event(op, "kept", NoInterval)
    /\ UNCHANGED <<prompt, columns, rows, generatedImageUrl, isLoading, error,
                   isPlaying, fps, aspectRatio>>
    /\ UNCHANGED playerVars

\* the request resolves with image bytes: setGeneratedImageUrl, setIsPlaying(true)
\* and setIsLoading(false)
GenerateSuccess(img) == Settle("GenerateSuccess", img, "none")

\* the request resolves without image bytes: setError and setIsLoading(false)
GenerateNoImage == Settle("GenerateNoImage", 0, "noImage")

\* the request rejects: setError in the catch block and setIsLoading(false)
GenerateThrows == Settle("GenerateThrows", 0, "exception")

\* React renders the state the continuation queued; with an image the App
\* renders a SpritePlayer for the first time (handleGenerate removed the one
\* before the request), whose effects are left for a later task
CommitOutcome ==
    /\ outcome.set
    /\ outcome' = NoOutcome
    /\ isLoading' = FALSE
    /\ aspectRatio' = "none"
    /\ generatedImageUrl' = IF outcome.imageUrl # 0 THEN outcome.imageUrl
                            ELSE generatedImageUrl
    /\ isPlaying' = IF outcome.imageUrl # 0 THEN TRUE ELSE isPlaying
    /\ error' = IF outcome.imageUrl # 0 THEN error ELSE outcome.error
    /\ UNCHANGED <<prompt, columns, rows, fps>>
    /\ last' = Event("CommitOutcome", "kept", NoInterval)
    /\ IF generatedImageUrl' # 0 /\ ~mounted
       THEN /\ Len(pending) < MaxPending
            /\ mounted' = TRUE
            /\ props' = AppProps(generatedImageUrl', columns, rows, fps, isPlaying')
            /\ hasElement' = ~IsZero(frameDimensions.width)
            /\ backgroundPosition' = Origin
            /\ effectsDue' = "mount"
            /\ UNCHANGED <<spriteDimensions, frameDimensions, geomFrom, currentFrame,
                           queued, intervals, cleanup, pending>>
       ELSE UNCHANGED playerVars

\* onClick of the play/pause button, rendered only with an image
TogglePlay ==
    /\ generatedImageUrl # 0
    /\ isPlaying' = ~isPlaying
    /\ UNCHANGED <<prompt, columns, rows, generatedImageUrl, isLoading, error, fps,
                   aspectRatio, outcome>>
    /\ AppCommit("TogglePlay")

\* onChange of the fps slider, rendered only with an image
FpsChange(f) ==
    /\ generatedImageUrl # 0
    /\ N(f) # fps
    /\ fps' = N(f)
    /\ UNCHANGED <<prompt, columns, rows, generatedImageUrl, isLoading, error, isPlaying,
                   aspectRatio, outcome>>
    /\ AppCommit("FpsChange")

Init ==
    /\ prompt = ""
    /\ columns = N(InitialColumns)
    /\ rows = N(InitialRows)
    /\ generatedImageUrl = 0
    /\ isLoading = FALSE
    /\ error = "none"
    /\ isPlaying = TRUE
    /\ fps = N(InitialFps)
    /\ aspectRatio = "none"
    /\ outcome = NoOutcome
    /\ mounted = FALSE
    /\ props = NoProps
    /\ spriteDimensions = ZeroDim
    /\ frameDimensions = ZeroDim
    /\ geomFrom = NoLoad
    /\ currentFrame = N(0)
    /\ hasElement = FALSE
    /\ backgroundPosition = Origin
    /\ queued = NoUpdate
    /\ effectsDue = "none"
    /\ intervals = {}
    /\ cleanup = {}
    /\ pending = <<>>
    /\ last = [op |-> "Init", anim |-> "idle", tick |-> NoInterval, replaced |-> 0]

Next ==
    \/ \E s \in Prompts : SetPrompt(s)
    \/ \E text \in FieldTexts : ColumnsChange(text)
    \/ \E text \in FieldTexts : RowsChange(text)
    \/ Submit
    \/ SubmitThrows
    \/ \E img \in Images : GenerateSuccess(img)
    \/ GenerateNoImage
    \/ GenerateThrows
    \/ CommitOutcome
    \/ TogglePlay
    \/ \E f \in FpsSamples : FpsChange(f)
    \/ \E i \in 1..MaxPending + 1 : ImageLoaded(i)
    \/ \E i \in 1..MaxPending + 1 : ImageError(i)
    \/ CommitQueued
    \/ PassiveEffects
    \/ \E t \in intervals : TimerTick(t)

Spec == Init /\ [][Next]_vars

(***************************************************************************)
(* The SpritePlayer while its parent changes the image or the grid faster  *)
(* than the images load: up to MaxRace loads of one player outstanding.    *)
(***************************************************************************)
RaceProps ==
    [imageUrl : {i \in Images : Decodes(i)},
     columns : {N(2), N(InitialColumns)},
     frames : {N(InitialColumns), N(2 * InitialColumns)},
     fps : {N(InitialFps)},
     isPlaying : {TRUE}]

\* the parent renders <SpritePlayer {...p} /> from a DOM event handler: the
\* first render, or a render that changes one prop, with at most `most' loads
\* outstanding afterwards
RenderWithin(p, most) ==
    /\ \/ ~mounted
       \/ Cardinality({f \in DOMAIN p : p[f] # props[f]}) = 1
    /\ PlayerCommit("PlayerRender", TRUE, p)
    /\ Outstanding(pending', queued') <= most
    /\ UNCHANGED appVars

NextRace ==
    \/ \E p \in RaceProps : RenderWithin(p, MaxRace)
    \/ \E i \in 1..MaxRace : ImageLoaded(i)
    \/ CommitQueued
    \/ PassiveEffects
    \/ \E t \in intervals : TimerTick(t)

SpecRace == Init /\ [][NextRace]_vars

(***************************************************************************)
(* The aspect-ratio selection on its own: the form holds any grid the      *)
(* number fields accept (1..16 each) and a prompt, and is submitted.       *)
(***************************************************************************)
InitClassify ==
    /\ prompt = " knight "
    /\ columns \in {N(c) : c \in 1..FieldMax}
    /\ rows \in {N(r) : r \in 1..FieldMax}
    /\ generatedImageUrl = 0
    /\ isLoading = FALSE
    /\ error = "none"
    /\ isPlaying = TRUE
    /\ fps = N(InitialFps)
    /\ aspectRatio = "none"
    /\ outcome = NoOutcome
    /\ mounted = FALSE
    /\ props = NoProps
    /\ spriteDimensions = ZeroDim
    /\ frameDimensions = ZeroDim
    /\ geomFrom = NoLoad
    /\ currentFrame = N(0)
    /\ hasElement = FALSE
    /\ backgroundPosition = Origin
    /\ queued = NoUpdate
    /\ effectsDue = "none"
    /\ intervals = {}
    /\ cleanup = {}
    /\ pending = <<>>
    /\ last = [op |-> "Init", anim |-> "idle", tick |-> NoInterval, replaced |-> 0]

NextClassify ==
    \/ Submit
    \/ GenerateNoImage
    \/ CommitOutcome

SpecClassify == InitClassify /\ [][NextClassify]_vars


(***************************************************************************)
(* A playing player left alone: the App right after the generated sheet    *)
(* has loaded, for any grid up to MaxLoopGrid, and from then on no event   *)
(* but the timer.  setInterval keeps firing until it is cleared.           *)
(***************************************************************************)
InitLoop ==
    \E img \in {i \in Images : Decodes(i)}, c \in 1..MaxLoopGrid,
       r \in 1..MaxLoopGrid, f \in FpsSamples :
        LET p    == AppProps(img, N(c), N(r), N(f), TRUE)
            load == LoadClosure(p)
            fd   == ResolveFrame(load)
        IN  /\ prompt = " knight "
            /\ columns = N(c)
            /\ rows = N(r)
            /\ generatedImageUrl = img
            /\ isLoading = FALSE
            /\ error = "none"
            /\ isPlaying = TRUE
            /\ fps = N(f)
            /\ aspectRatio = "none"
            /\ outcome = NoOutcome
            /\ mounted = TRUE
            /\ props = p
            /\ spriteDimensions = ResolveSprite(load)
            /\ frameDimensions = fd
            /\ geomFrom = [img |-> img, columns |-> p.columns, frames |-> p.frames]
            /\ currentFrame = N(0)
            /\ hasElement = TRUE
            /\ backgroundPosition = Origin
            /\ queued = NoUpdate
            /\ effectsDue = "none"
            /\ intervals = {IntervalClosure(p, fd, img)}
            /\ cleanup = {IntervalClosure(p, fd, img)}
            /\ pending = <<>>
            /\ last = [op |-> "ImageLoaded", anim |-> "started", tick |-> NoInterval,
                       replaced |-> 0]

\* the timer fires
Tick == \E t \in intervals : TimerTick(t)

NextLoop == Tick

SpecLoop == InitLoop /\ [][NextLoop]_vars /\ WF_vars(Tick)

(***************************************************************************)
(* The cutting of a sheet on its own: a playing SpritePlayer just rendered *)
(* with a sheet of 29 x 29 or 896 x 1280 pixels, any column count up to    *)
(* MaxGeometryColumns and any frame count up to MaxGeometryFrames; then    *)
(* the image loads and the timer walks the frames.                         *)
(***************************************************************************)
GeometryImages == {5, 6}

InitGeometry ==
    \E img \in GeometryImages, c \in 1..MaxGeometryColumns,
       n \in 1..MaxGeometryFrames :
        LET p == [imageUrl |-> img, columns |-> N(c), frames |-> N(n),
                  fps |-> N(InitialFps), isPlaying |-> TRUE]
        IN  /\ prompt = ""
            /\ columns = N(InitialColumns)
            /\ rows = N(InitialRows)
            /\ generatedImageUrl = 0
            /\ isLoading = FALSE
            /\ error = "none"
            /\ isPlaying = TRUE
            /\ fps = N(InitialFps)
            /\ aspectRatio = "none"
            /\ outcome = NoOutcome
            /\ mounted = TRUE
            /\ props = p
            /\ spriteDimensions = ZeroDim
            /\ frameDimensions = ZeroDim
            /\ geomFrom = NoLoad
            /\ currentFrame = N(0)
            /\ hasElement = FALSE
            /\ backgroundPosition = Origin
            /\ queued = NoUpdate
            /\ effectsDue = "none"
            /\ intervals = {}
            /\ cleanup = {}
            /\ pending = <<LoadClosure(p)>>
            /\ last = [op |-> "other", anim |-> "idle", tick |-> NoInterval,
                       replaced |-> 0]

NextGeometry ==
    \/ ImageLoaded(1)
    \/ CommitQueued
    \/ PassiveEffects
    \/ Tick

SpecGeometry == InitGeometry /\ [][NextGeometry]_vars

(***************************************************************************)
(* Properties.                                                             *)
(***************************************************************************)
\* a timer callback runs
TickStep == last'.op = "TimerTick" /\ \E t \in intervals : TimerTick(t)

\* the onload of a load started by the mounted player runs
LiveLoadStep ==
    /\ last'.op = "ImageLoaded"
    /\ \E i \in DOMAIN pending : pending[i].live /\ ImageLoaded(i)

\* React renders the state a load queued
CommitStep == last'.op = "CommitQueued" /\ CommitQueued

\* the effects of that render run
EffectsStep == last'.op = "PassiveEffects" /\ PassiveEffects

\* the fps slider moves
FpsStep == last'.op = "FpsChange" /\ \E f \in FpsSamples : FpsChange(f)

\* the columns or the rows field is edited
GridStep == columns' # columns \/ rows' # rows

\* v is an integer >= 1
IsCount(v) == IsInteger(v) /\ v[1] >= 1

\* j = (i + 1) mod n over the integers
IsSuccessor(i, j, n) ==
    /\ IsInteger(i)
    /\ IsInteger(j)
    /\ IsCount(n)
    /\ j[1] = (i[1] + 1) % n[1]

\* C1: whenever the frame count is an integer >= 1 and the frame index is an
\* integer, the index is in [0, frameCount).
C1_IndexInRange ==
    (mounted /\ IsCount(props.frames) /\ IsInteger(currentFrame))
        => (0 <= currentFrame[1] /\ currentFrame[1] < props.frames[1])

\* C2: a tick fires only while isPlaying, and it replaces the frame index i
\* by (i + 1) mod frameCount.
C2_TickAdvances ==
    [][TickStep => (isPlaying /\ IsSuccessor(currentFrame, currentFrame', props.frames))]_vars

\* C3 as claimed: when a sheet image finishes loading, the player is stopped
\* (isPlaying false, no timer) with frame index 0.
C3_LoadStops ==
    [][LiveLoadStep => (~isPlaying' /\ intervals' = {} /\ currentFrame' = N(0))]_vars

\* C3 as amended: when a sheet image finishes loading, the frame index and the
\* displayed offset are reset to 0 and isPlaying and the timer are left as they
\* were; the render of the new sizes leaves them too; and once the effects of
\* that render have run, a timer runs exactly when the player is playing and the
\* resolved frame size is usable, and it is one started on the new frame size.
C3_LoadResetsIndex ==
    [][/\ LiveLoadStep =>
              /\ currentFrame' = N(0)
              /\ (hasElement' => backgroundPosition' = Origin)
              /\ isPlaying' = isPlaying
              /\ intervals' = intervals
       /\ CommitStep =>
              /\ isPlaying' = isPlaying
              /\ currentFrame' = currentFrame
              /\ (effectsDue # "none" \/ intervals' = intervals)
       /\ EffectsStep =>
              /\ isPlaying' = isPlaying
              /\ currentFrame' = currentFrame
              /\ (intervals' # {}) =
                     (isPlaying /\ Truthy(frameDimensions.width)
                                /\ Truthy(frameDimensions.height))
              /\ \A t \in intervals' :
                     /\ t.width = frameDimensions.width
                     /\ t.height = frameDimensions.height]_vars

\* the effects after a load started the timer of a playing player at frame 0
C3_Witness ==
    /\ last.op = "PassiveEffects"
    /\ last.anim = "started"
    /\ isPlaying
    /\ intervals # {}
    /\ currentFrame = N(0)

\* C4: every active timer, and every tick, uses a frame size resolved from the
\* image the player currently shows, which is the frame size now stored once
\* the effects of the last render have run.
C4_NoStaleSheetTick ==
    /\ \A t \in intervals :
          /\ mounted
          /\ t.sheet = generatedImageUrl
          /\ geomFrom.img = generatedImageUrl
          /\ effectsDue = "none" =>
                 /\ t.width = frameDimensions.width
                 /\ t.height = frameDimensions.height
    /\ (last.op = "TimerTick" => last.tick.sheet = generatedImageUrl)

\* a tick on the new image's geometry after a player of another image was replaced
C4_Witness ==
    /\ last.op = "TimerTick"
    /\ last.replaced # 0
    /\ last.replaced # last.tick.sheet
    /\ last.tick.sheet = generatedImageUrl

\* C5: while paused no timer is active; a step of a paused player other than a
\* load, a grid edit or a new generation leaves the frame index and the offset
\* unchanged; and the first tick after a resume replaces the frozen index i by
\* (i + 1) mod frameCount.
C5_PauseFreezes ==
    [][/\ (~isPlaying => intervals = {})
       /\ (/\ ~isPlaying /\ ~isPlaying'
           /\ mounted /\ mounted'
           /\ ~LiveLoadStep /\ ~GridStep)
          => (currentFrame' = currentFrame /\ backgroundPosition' = backgroundPosition)
       /\ (TickStep /\ last.op = "other" /\ last.anim = "started")
          => IsSuccessor(currentFrame, currentFrame', props.frames)]_vars

\* C6: an fps change leaves the frame index and the offset unchanged; a running
\* timer is replaced by one that differs only in its period, 1000 / fps for the
\* new fps; no timer is started when none ran.  (The timer that runs is the one
\* of the last render, whose effects the change runs first if they are due.)
C6_FpsKeepsIndex ==
    [][FpsStep =>
          /\ currentFrame' = currentFrame
          /\ backgroundPosition' = backgroundPosition
          /\ \A owed \in {Flushed.intervals} :
                 /\ (owed = {} => intervals' = {})
                 /\ (owed # {} =>
                        /\ intervals' # {}
                        /\ cleanup' = intervals'
                        /\ (effectsDue = "none" => last'.anim = "restarted")
                        /\ \A t2 \in intervals' :
                              /\ t2.delay = JsDiv(N(1000), fps')
                              /\ \E t1 \in owed :
                                     [t2 EXCEPT !.delay = t1.delay] = t1)]_vars

C6_Witness ==
    /\ last.op = "FpsChange"
    /\ last.anim = "restarted"
    /\ isPlaying
    /\ currentFrame # N(0)

C8_SingleTimer ==
    /\ Cardinality(intervals) <= 1
    /\ (~isPlaying => intervals = {})
    /\ (~mounted => intervals = {})
    /\ (generatedImageUrl = 0 => ~mounted)

\* the teardown of a player cancelled its running timer
C8_Witness ==
    /\ ~mounted
    /\ last.anim = "cleared"
    /\ intervals = {}

\* C9: for an integer index and integer columns >= 1 the displayed offset is
\* x = -(index mod columns) * frameWidth, y = -floor(index / columns) * frameHeight
\* of the current index, columns and frame size.
C9_OffsetDerived ==
    (/\ hasElement
     /\ IsInteger(currentFrame) /\ currentFrame[1] >= 0
     /\ IsCount(props.columns)
     /\ IsFinite(frameDimensions.width) /\ IsFinite(frameDimensions.height))
        => backgroundPosition =
               <<JsMul(N(-(currentFrame[1] % props.columns[1])), frameDimensions.width),
                 JsMul(N(-(currentFrame[1] \div props.columns[1])), frameDimensions.height)>>

\* the load of the mounted player's image fails
LiveErrorStep ==
    /\ Len(pending') < Len(pending)
    /\ \E i \in DOMAIN pending : pending[i].live /\ ImageError(i)

\* C11: every failure of an external step leaves an error message set: a sheet
\* image that fails to load, and a generation request that throws or returns
\* no image.
C11_ErrorsSurfaced ==
    [][/\ (LiveErrorStep => error' # "none")
       /\ ((isLoading /\ ~isLoading' /\ generatedImageUrl' = 0) => error' # "none")]_vars

\* C12: the columns and rows values, and the ones handed to the player, are
\* integers >= 1, so frameCount = columns * rows is an integer >= 1.
C12_GridClamped ==
    /\ IsCount(columns)
    /\ IsCount(rows)
    /\ IsCount(JsMul(columns, rows))
    /\ (mounted => (IsCount(props.columns) /\ IsCount(props.frames)))

\* |a - b| of two rationals, as a rational
Distance(a, b) == Norm(Abs(a[1] * b[2] - b[1] * a[2]), a[2] * b[2])

\* the canonical ratios with their labels
Canonical ==
    {<<Norm(9, 16), "9:16">>, <<Norm(3, 4), "3:4">>, <<Norm(1, 1), "1:1">>,
     <<Norm(4, 3), "4:3">>, <<Norm(16, 9), "16:9">>}

\* the label of the canonical ratio nearest to ratio, the smaller one on a tie
Nearest(ratio) ==
    LET best == CHOOSE p \in Canonical :
                    \A q \in Canonical :
                        \/ JsLt(Distance(p[1], ratio), Distance(q[1], ratio))
                        \/ /\ Distance(p[1], ratio) = Distance(q[1], ratio)
                           /\ JsLe(p[1], q[1])
    IN  best[2]

\* C13: for integers columns, rows >= 1 the ratio sent with the request is one
\* of the five labels, and a grid rescaled by any k >= 1 gets the same label.
C13_ClassifyScaleInvariant ==
    (isLoading /\ IsCount(columns) /\ IsCount(rows)) =>
        /\ aspectRatio \in AspectRatios
        /\ \A k \in 1..MaxScale :
               Classify(N(k * columns[1]), N(k * rows[1])) = aspectRatio

\* a request for a grid that is not one of the canonical ratios
C13_Witness ==
    /\ isLoading
    /\ columns = N(5)
    /\ rows = N(2)
    /\ aspectRatio = "16:9"

\* C14: for integers columns, rows >= 1 the label is that of the canonical
\* ratio nearest to columns / rows, the smaller of the two at a midpoint, so
\* (1,1), (16,9), (9,16), (4,3), (3,4) get their own labels.
C14_NearestRatio ==
    (isLoading /\ IsCount(columns) /\ IsCount(rows)) =>
        /\ aspectRatio = Nearest(JsDiv(columns, rows))
        /\ (<<columns, rows>> = <<N(1), N(1)>> => aspectRatio = "1:1")
        /\ (<<columns, rows>> = <<N(16), N(9)>> => aspectRatio = "16:9")
        /\ (<<columns, rows>> = <<N(9), N(16)>> => aspectRatio = "9:16")
        /\ (<<columns, rows>> = <<N(4), N(3)>> => aspectRatio = "4:3")
        /\ (<<columns, rows>> = <<N(3), N(4)>> => aspectRatio = "3:4")

\* C16: every tick with an integer grid computes its offset with the frame
\* size resolved from the shown sheet for the columns and frameCount the tick
\* uses; none combines a new grid with the frame size of the old one.
C16_GeometryNeverLags ==
    (/\ last.op = "TimerTick"
     /\ IsCount(last.tick.columns)
     /\ IsCount(last.tick.frames))
        => /\ last.tick.columns = props.columns
           /\ last.tick.frames = props.frames
           /\ [width |-> last.tick.width, height |-> last.tick.height] =
                  ResolveFrame([img |-> generatedImageUrl,
                                columns |-> props.columns,
                                frames |-> props.frames])

\* frame i is the current one and its offset is the one shown
Displayed(i) ==
    /\ currentFrame = N(i)
    /\ hasElement
    /\ backgroundPosition =
           <<JsMul(N(-(i % props.columns[1])), frameDimensions.width),
             JsMul(N(-(i \div props.columns[1])), frameDimensions.height)>>

\* C17: a playing player with resolved geometry, frameCount >= 1 and fps > 0
\* that is left alone shows every frame index in [0, frameCount) infinitely
\* often, each tick moving from i to (i + 1) mod frameCount.
C17_LoopsForever ==
    /\ \A i \in 0..(MaxLoopGrid * MaxLoopGrid - 1) :
           []<>(i < props.frames[1] => Displayed(i))
    /\ [][IsSuccessor(currentFrame, currentFrame', props.frames)]_vars

\* a tick wrapped from the last frame to the first
C17_Witness ==
    /\ last.op = "TimerTick"
    /\ props.frames[1] > 1
    /\ currentFrame = N(0)
    /\ backgroundPosition = Origin

\* C18: once every outstanding load of a player has completed, in whatever
\* order, and its sizes are rendered, the stored sheet size and frame size are
\* those resolved for the player's latest image, columns and frameCount.
C18_LatestLoadWins ==
    (mounted /\ pending = <<>> /\ ~queued.set)
        => /\ spriteDimensions = ResolveSprite(LoadClosure(props))
           /\ frameDimensions = ResolveFrame(LoadClosure(props))

\* the sheet of the current props has loaded and is shown
SheetShown == mounted /\ hasElement /\ pending = <<>> /\ ~queued.set

\* const rows = Math.ceil(frames / columns) for the current props
EffectiveRows == JsCeil(JsDiv(props.frames, props.columns))

\* a is b, or one of the k doubles next to b on either side
WithinUlps(a, b, k) ==
    /\ Shadow(a) = Shadow(b)
    /\ Ulps(a) - Ulps(b) \in -k..k

\* C15 (as stated): once the sheet has loaded, frameWidth * columns is the sheet
\* width exactly and frameHeight * effectiveRows is the sheet height exactly,
\* effectiveRows being ceil(frameCount / columns).
C15_FramesTileSheet ==
    SheetShown =>
        /\ JsMul(frameDimensions.width, props.columns) = spriteDimensions.width
        /\ JsMul(frameDimensions.height, EffectiveRows) = spriteDimensions.height

\* C15 (amended): once the sheet has loaded, frameWidth and frameHeight are the
\* doubles nearest to sheetWidth / columns and sheetHeight / effectiveRows with
\* effectiveRows = ceil(frameCount / columns); frameWidth * columns and
\* frameHeight * effectiveRows are the sheet sizes exactly when the quotients are
\* binary fractions, and within one unit in the last place of them otherwise.
C15_FramesTileSheetRounded ==
    SheetShown =>
        LET fd == frameDimensions
            sd == spriteDimensions
            w  == JsMul(fd.width, props.columns)
            h  == JsMul(fd.height, EffectiveRows)
        IN  /\ fd.width = JsDiv(sd.width, props.columns)
            /\ fd.height = JsDiv(sd.height, EffectiveRows)
            /\ WithinUlps(w, sd.width, 1)
            /\ WithinUlps(h, sd.height, 1)
            /\ Representable(fd.width) => w = sd.width
            /\ Representable(fd.height) => h = sd.height

\* a 29 x 29 sheet cut in 7 columns and 2 rows (13 frames) has loaded
C15_Witness ==
    /\ SheetShown
    /\ spriteDimensions.width = N(29)
    /\ props.columns = N(7)
    /\ props.frames = N(13)
    /\ frameDimensions = [width |-> <<29, 7>>, height |-> <<29, 2>>]

\* C19 (as stated): the displayed frame lies inside the sheet: x <= 0, y <= 0,
\* -x + frameWidth <= sheetWidth and -y + frameHeight <= sheetHeight.
C19_FrameInsideSheet ==
    SheetShown =>
        LET x == backgroundPosition[1]
            y == backgroundPosition[2]
        IN  /\ JsLe(x, N(0))
            /\ JsLe(y, N(0))
            /\ JsLe(JsAdd(JsNeg(x), frameDimensions.width), spriteDimensions.width)
            /\ JsLe(JsAdd(JsNeg(y), frameDimensions.height), spriteDimensions.height)

\* a is at most b, or one of the k doubles next above b
AtMostUlpsAbove(a, b, k) == JsLe(a, b) \/ (JsLt(b, a) /\ WithinUlps(a, b, k))

\* C19 (amended): the displayed frame lies inside the sheet up to the rounding of
\* the offsets: x <= 0, y <= 0, and -x + frameWidth and -y + frameHeight are at
\* most the sheet width and height or within two units in the last place above
\* them, and at most the sheet width and height when the frame size is a binary
\* fraction.
C19_FrameInsideSheetRounded ==
    SheetShown =>
        LET x  == backgroundPosition[1]
            y  == backgroundPosition[2]
            fd == frameDimensions
            sd == spriteDimensions
        IN  /\ JsLe(x, N(0))
            /\ JsLe(y, N(0))
            /\ AtMostUlpsAbove(JsAdd(JsNeg(x), fd.width), sd.width, 2)
            /\ AtMostUlpsAbove(JsAdd(JsNeg(y), fd.height), sd.height, 2)
            /\ Representable(fd.width) => JsLe(JsAdd(JsNeg(x), fd.width), sd.width)
            /\ Representable(fd.height) => JsLe(JsAdd(JsNeg(y), fd.height), sd.height)

\* the last frame of the first row of an 896 x 1280 sheet cut in 6 columns is shown
C19_Witness ==
    /\ SheetShown
    /\ spriteDimensions.width = N(896)
    /\ props.columns = N(6)
    /\ currentFrame = N(5)
    /\ backgroundPosition[1] = JsMul(N(-5), <<448, 3>>)
    /\ last.op = "TimerTick"

====
